---- MODULE Spec2Model ----
(***************************************************************************)
(* Model of the asynchronous HTTP GET client of src/src/client.cpp: one    *)
(* HTTPRequest, the caller threads that call execute() and cancel() on it, *)
(* the single worker thread that runs the io_service and delivers the      *)
(* completion handlers, the network, which completes the outstanding       *)
(* operations, and HTTPClient::close(), which waits for the worker thread. *)
(***************************************************************************)
EXTENDS Integers, Sequences, FiniteSets, TLC

\* ------------------------------------------------------------------------
\* Bounds and the finite sets the inputs are drawn from
\* ------------------------------------------------------------------------

\* Total number of cancel() calls the caller threads make in one run.
MaxCancels == 2

\* The threads of the program that use the HTTPRequest (callers), and the
\* worker thread that runs m_ios.run().
Callers == {"main", "other"}
Reactor == "reactor"
Lines == Callers \cup {Reactor}

\* Characters are one-character strings; a buffer is a sequence of them.
SP == " "
CR == "\r"
LF == "\n"
Whitespace == {SP, CR, LF}
Digits == {"0", "1", "2", "3", "4", "5", "6", "7", "8", "9"}
DigitVal == ("0" :> 0) @@ ("1" :> 1) @@ ("2" :> 2) @@ ("3" :> 3) @@ ("4" :> 4)
            @@ ("5" :> 5) @@ ("6" :> 6) @@ ("7" :> 7) @@ ("8" :> 8) @@ ("9" :> 9)

HTTP11 == <<"H", "T", "T", "P", "/", "1", ".", "1">>
HTTP10 == <<"H", "T", "T", "P", "/", "1", ".", "0">>

\* What the server can send as the first line of its response.
StatusLines ==
    { HTTP11 \o <<SP, "2", "0", "0", SP, "O", "K", CR, LF>>,
      HTTP10 \o <<SP, "2", "0", "0", SP, "O", "K", CR, LF>>,
      HTTP11 \o <<SP, "O", "K", SP, "F", "O", "U", "N", "D", CR, LF>>,
      HTTP11 \o <<SP, "2", "x", SP, "O", "K", CR, LF>>,
      HTTP11 \o <<SP, "7", CR, LF>>,
      HTTP11 \o <<CR, LF>> }

\* What the server can send after the status line, up to and including the
\* first "\r\n\r\n" (the last block carries bytes after the delimiter).
HeaderBlocks ==
    { <<"A", ":", "b", CR, LF, CR, LF>>,
      <<"A", ":", "b", CR, LF, "A", ":", "c", CR, LF, CR, LF>>,
      <<"A", CR, LF, "B", ":", CR, LF, CR, LF>>,
      <<"A", ":", "b", CR, "X", CR, LF, CR, LF>>,
      <<"A", CR, CR, LF, CR, LF, "x", "y">> }

\* Values an unsigned int that was never initialised can hold.
IndeterminateCodes == {0, 7}

\* The asynchronous operations, in the order the handlers chain them.
OpOrder == <<"resolve", "connect", "write", "status", "headers", "body">>
Ops == {OpOrder[i] : i \in 1..Len(OpOrder)}

\* Error codes: boost::system::error_code values seen by the handlers.
Success == "success"
OperationAborted == "operation_aborted"
Eof == "eof"

\* What the network can report for each operation when nobody cancels it.
Outcomes(k) ==
    CASE k = "resolve" -> {Success, "host_not_found"}
      [] k = "connect" -> {Success, "connection_refused"}
      [] k = "write"   -> {Success, "connection_reset"}
      [] k = "status"  -> {Success, Eof, "connection_reset"}
      [] k = "headers" -> {Success, Eof, "connection_reset"}
      [] k = "body"    -> {Eof, "connection_reset"}

\* ------------------------------------------------------------------------
\* Application error code
\* ------------------------------------------------------------------------

invalid_response == "invalid_response"

make_error_code(e) == e

\* ------------------------------------------------------------------------
\* std::istream over the response streambuf
\* ------------------------------------------------------------------------

\* A stream is [buf, good]: the unread bytes and whether no eofbit/failbit
\* is set (a stream that is not good fails every later extraction).
NewStream(b) == [buf |-> b, good |-> TRUE]

RECURSIVE SkipWs(_)
SkipWs(b) == IF b # <<>> /\ Head(b) \in Whitespace THEN SkipWs(Tail(b)) ELSE b

RECURSIVE TokenLen(_)
TokenLen(b) == IF b = <<>> \/ Head(b) \in Whitespace THEN 0 ELSE 1 + TokenLen(Tail(b))

\* operator>>(std::istream&, std::string&): skip whitespace, then read up to
\* the next whitespace or the end of the data.
Extract(s) ==
    IF ~s.good THEN [tok |-> <<>>, s |-> s]
    ELSE LET t == SkipWs(s.buf)
             n == TokenLen(t)
         IN  IF n = 0 THEN [tok |-> <<>>, s |-> [buf |-> t, good |-> FALSE]]
             ELSE [tok |-> SubSeq(t, 1, n),
                   s   |-> [buf |-> SubSeq(t, n + 1, Len(t)), good |-> n < Len(t)]]

RECURSIVE FindChar(_, _, _)
\* index of the first c in b at or after position i, 0 if there is none
FindChar(b, c, i) ==
    IF i > Len(b) THEN 0 ELSE IF b[i] = c THEN i ELSE FindChar(b, c, i + 1)

\* std::getline(stream, str, '\r'): str keeps its old value when the stream
\* is not good; the delimiter is consumed and not stored.
GetLine(s, old) ==
    IF ~s.good THEN [line |-> old, s |-> s]
    ELSE LET i == FindChar(s.buf, CR, 1)
         IN  IF i > 0
             THEN [line |-> SubSeq(s.buf, 1, i - 1),
                   s    |-> [buf |-> SubSeq(s.buf, i + 1, Len(s.buf)), good |-> TRUE]]
             ELSE [line |-> s.buf, s |-> [buf |-> <<>>, good |-> FALSE]]

\* stream.get(): drop one character
Get(s) ==
    IF ~s.good \/ s.buf = <<>> THEN [buf |-> s.buf, good |-> FALSE]
    ELSE [buf |-> Tail(s.buf), good |-> TRUE]

RECURSIVE DigitsLen(_)
DigitsLen(b) == IF b = <<>> \/ Head(b) \notin Digits THEN 0 ELSE 1 + DigitsLen(Tail(b))

RECURSIVE DecValue(_, _)
DecValue(b, acc) ==
    IF b = <<>> THEN acc ELSE DecValue(Tail(b), 10 * acc + DigitVal[Head(b)])

\* std::stoul(str): converts the longest prefix of decimal digits; throws
\* std::invalid_argument (a std::logic_error) when there is none.  No token
\* of StatusLines carries a sign or exceeds the range of unsigned int.
stoul(tok) ==
    LET n == DigitsLen(tok)
    IN  IF n = 0 THEN [throws |-> TRUE, value |-> 0]
        ELSE [throws |-> FALSE, value |-> DecValue(SubSeq(tok, 1, n), 0)]

\* ------------------------------------------------------------------------
\* HTTPResponse
\* ------------------------------------------------------------------------

\* std::map<std::string, std::string>, empty after construction
EmptyHeaders == [n \in {} |-> <<>>]

\* m_headers[name] = value
add_header(headers, name, value) == (name :> value) @@ headers

\* ------------------------------------------------------------------------
\* Parsing done by the read handlers
\* ------------------------------------------------------------------------

\* http_version != "HTTP/1.1" is the rejection test of the status line
VersionAccepted(tok) == tok = HTTP11

\* The parse of on_status_line_received: the error it finishes with (Success
\* when it goes on), the fields it stores, and the bytes left in the buffer.
\* (Each extraction is bound as a value, so that it is computed once.)
ParseStatusLine(b) ==
    CHOOSE r \in UNION {
        IF ~VersionAccepted(v.tok)
        THEN {[error |-> make_error_code(invalid_response), code |-> 0,
               message |-> <<>>, buf |-> v.s.buf]}
        ELSE UNION {
            IF stoul(c.tok).throws
            THEN {[error |-> make_error_code(invalid_response), code |-> 0,
                   message |-> <<>>, buf |-> c.s.buf]}
            ELSE {[error |-> Success, code |-> stoul(c.tok).value,
                   message |-> m.line, buf |-> Get(m.s).buf] :
                      m \in {GetLine(c.s, <<>>)}}
            : c \in {Extract(v.s)} }
        : v \in {Extract(NewStream(b))} } : TRUE

\* One header line: name before the first ':', value after it.
StoreHeader(headers, header) ==
    LET separator_pos == FindChar(header, ":", 1)
    IN  IF separator_pos # 0
        THEN add_header(headers,
                        SubSeq(header, 1, separator_pos - 1),
                        IF separator_pos < Len(header)
                        THEN SubSeq(header, separator_pos + 1, Len(header))
                        ELSE <<>>)
        ELSE headers

RECURSIVE HeaderLoop(_, _, _)
\* The while (true) loop of on_headers_received.  It leaves only when a
\* line is empty; once the stream is no longer good, getline leaves the
\* previous line in place, and with a non-empty line the loop never ends.
\* (The state of the next iteration is bound as a value, so that it is
\* computed once.)
HeaderLoop(s, header, headers) ==
    LET l == GetLine(s, header)
        g == Get(l.s)
    IN  IF l.line = <<>>
        THEN [hangs |-> FALSE, headers |-> headers, buf |-> g.buf]
        ELSE IF ~s.good
        THEN [hangs |-> TRUE, headers |-> StoreHeader(headers, l.line), buf |-> g.buf]
        ELSE CHOOSE r \in
                 { HeaderLoop(a.s, a.header, a.headers) :
                     a \in {[s |-> g, header |-> l.line,
                             headers |-> StoreHeader(headers, l.line)]} } : TRUE

ParseHeaders(b, headers) == HeaderLoop(NewStream(b), <<>>, headers)

\* asio::async_read_until completes once the delimiter is in the unread data
RECURSIVE HasDelimiter(_, _)
HasDelimiter(b, d) ==
    /\ Len(b) >= Len(d)
    /\ \/ SubSeq(b, 1, Len(d)) = d
       \/ HasDelimiter(Tail(b), d)

\* ------------------------------------------------------------------------
\* State
\* ------------------------------------------------------------------------

VARIABLES
    pc,                  \* position of every line of control
    fin_ec,              \* argument of the on_finish call a line is making
    handler,             \* operation whose completion handler the worker runs
    m_was_cancelled,     \* HTTPRequest::m_was_cancelled
    m_cancel_mux,        \* holder of HTTPRequest::m_cancel_mux, or "free"
    sock_open,           \* m_sock.is_open()
    ops,                 \* asynchronous operations: state and result
    m_request_buf,       \* TRUE once the request message is composed
    m_response_buf,      \* unread bytes of HTTPResponse::m_response_buf
    m_status_code,       \* HTTPResponse::m_status_code
    m_status_message,    \* HTTPResponse::m_status_message
    m_headers,           \* HTTPResponse::m_headers
    response_writes,     \* fields of the HTTPResponse stored so far, in order
    executed,            \* execute() has been called
    exec_entry_cancelled,\* m_was_cancelled at the call of execute()
    cancels,             \* number of cancel() calls made
    cancel_callers,      \* threads that have called cancel()
    cancel_log,          \* what every cancel() found when it set the flag
    issued,              \* operations issued, in order
    observed,            \* completions seen by the handlers, in order
    determined,          \* outcomes already fixed when the flag was first set
    cb_count,            \* invocations of m_callback
    cb_ec,               \* error code passed to m_callback
    cb_by,               \* line of control that invoked m_callback
    cb_mux,              \* holder of m_cancel_mux when m_callback was invoked
    touched,             \* lines of control that have accessed each member
    m_work               \* HTTPClient::m_work holds an io_service::work

request == <<m_was_cancelled, m_cancel_mux, sock_open, m_request_buf>>
response == <<m_response_buf, m_status_code, m_status_message, m_headers, response_writes>>
control == <<pc, fin_ec, handler>>
calls == <<executed, exec_entry_cancelled, cancels, cancel_callers, cancel_log>>
callback == <<cb_count, cb_ec, cb_by, cb_mux>>
vars == <<control, request, response, ops, calls, issued, observed, determined,
          callback, touched, m_work>>

NoOp == [st |-> "none", ec |-> Success]

\* The members of an HTTPRequest whose accesses are followed.
Members == {"m_was_cancelled", "m_resolver", "m_sock", "m_response", "m_request_buf"}

\* The worker thread dies with the process when an exception leaves
\* m_ios.run(): nothing runs afterwards.
Alive == pc[Reactor] # "terminated"

\* The operations that were issued and whose handler has not run yet: the
\* work that keeps m_ios.run() from returning.
Outstanding == {k \in Ops : ops[k].st # "none"}

\* HTTPRequest::HTTPRequest, HTTPResponse::HTTPResponse, HTTPClient::HTTPClient
Init ==
    /\ pc = [l \in Lines |-> IF l = Reactor THEN "run" ELSE "idle"]
    /\ fin_ec = [l \in Lines |-> Success]
    /\ handler = "none"
    /\ m_was_cancelled = FALSE
    /\ m_cancel_mux = "free"
    /\ sock_open = FALSE
    /\ ops = [k \in Ops |-> NoOp]
    /\ m_request_buf = FALSE
    /\ m_response_buf = <<>>
    /\ m_status_code \in IndeterminateCodes
    /\ m_status_message = <<>>
    /\ m_headers = EmptyHeaders
    /\ response_writes = <<>>
    /\ executed = FALSE
    /\ exec_entry_cancelled = FALSE
    /\ cancels = 0
    /\ cancel_callers = {}
    /\ cancel_log = <<>>
    /\ issued = <<>>
    /\ observed = <<>>
    /\ determined = {}
    /\ cb_count = 0
    /\ cb_ec = Success
    /\ cb_by = "nobody"
    /\ cb_mux = "free"
    /\ touched = [m \in Members |-> {}]
    /\ m_work = TRUE

\* ------------------------------------------------------------------------
\* Helpers of the actions
\* ------------------------------------------------------------------------

\* the call on_finish(ec) made by line l
CallOnFinish(l, ec) ==
    /\ pc' = [pc EXCEPT ![l] = "on_finish"]
    /\ fin_ec' = [fin_ec EXCEPT ![l] = ec]

\* the initiating function of operation k (async_resolve, async_connect,
\* async_write, async_read_until, async_read); async_connect opens m_sock
Issue(k) ==
    /\ ops' = [ops EXCEPT ![k] = [st |-> "pending", ec |-> Success]]
    /\ issued' = Append(issued, k)
    /\ sock_open' = (sock_open \/ k = "connect")

\* NextOp with the write left out of the chain
NextOpSkipsWrite(k) ==
    CASE k = "resolve" -> "connect"
      [] k = "connect" -> "status"
      [] k = "write"   -> "status"
      [] k = "status"  -> "headers"
      [] k = "headers" -> "body"

\* The operation a handler issues after the completion of operation k.
NextOp(k) ==
    CASE k = "resolve" -> "connect"
      [] k = "connect" -> "write"
      [] k = "write"   -> "status"
      [] k = "status"  -> "headers"
      [] k = "headers" -> "body"

\* The members the initiating call of operation k is made on or given.
IssueTouches(k) ==
    CASE k = "resolve" -> {"m_resolver"}
      [] k = "connect" -> {"m_sock"}
      [] k = "write"   -> {"m_sock", "m_request_buf"}
      [] k = "status"  -> {"m_sock", "m_response"}
      [] k = "headers" -> {"m_sock", "m_response"}
      [] k = "body"    -> {"m_sock", "m_response"}

\* The members the handler of operation k works on before its cancellation
\* check: the request message, the shutdown of the socket, the parsing.
HandlerTouches(k) ==
    CASE k = "resolve" -> {}
      [] k = "connect" -> {"m_request_buf"}
      [] k = "write"   -> {"m_sock"}
      [] k = "status"  -> {"m_response"}
      [] k = "headers" -> {"m_response"}
      [] k = "body"    -> {}

\* The members cancel() accesses: the flag, m_resolver.cancel(),
\* m_sock.is_open() and m_sock.cancel().
CancelTouches == {"m_was_cancelled", "m_resolver", "m_sock"}

\* touched after line l has accessed the members ms
Touch(l, ms) == [m \in Members |-> IF m \in ms THEN touched[m] \cup {l} ELSE touched[m]]

\* The reactor delivers the completion of k to its handler.
Delivered(k) ==
    /\ Alive
    /\ pc[Reactor] = "run"
    /\ ops[k].st = "ready"

Observe(k) ==
    /\ ops' = [ops EXCEPT ![k] = NoOp]
    /\ observed' = Append(observed, [op |-> k, ec |-> ops[k].ec])

\* ErrorOnEntry reporting every failure as a cancellation
ErrorOnEntryAsAborted(ec) == OperationAborted

\* ErrorOnEntry that swallows the error
ErrorOnEntrySwallowed(ec) == Success

\* if (ec.value() != 0) { on_finish(ec); return; }
ErrorOnEntry(ec) == ec

\* BodyResult without the special case of the end of stream
BodyResultKeepsEof(ec) == ec

\* ec == asio::error::eof ? error_code() : ec
BodyResult(ec) == IF ec = Eof THEN Success ELSE ec

\* A handler that found no error goes on to the cancellation check.
GoOn(k) ==
    /\ pc' = [pc EXCEPT ![Reactor] = "lock"]
    /\ handler' = k
    /\ UNCHANGED fin_ec

\* m_sock.shutdown(shutdown_send) throws boost::system::system_error when
\* the call fails (the peer has reset the connection: ENOTCONN).
ShutdownOutcomes == {"ok", "not_connected"}

\* Bytes that can follow the header block before the peer closes.
Bodies == {<<>>, <<"h", "i">>}

HeaderDelimiter == <<CR, LF, CR, LF>>

\* The outcome the handler of a completed operation k delivers whatever the
\* cancellation flag says, as a set (empty when it depends on the flag).
FixedOutcome(k) ==
    IF ops[k].st # "ready" THEN {}
    ELSE IF k = "body" THEN {BodyResult(ops[k].ec)}
    ELSE IF ops[k].ec # Success THEN {ops[k].ec}
    ELSE IF k = "status" /\ ParseStatusLine(m_response_buf).error # Success
    THEN {ParseStatusLine(m_response_buf).error}
    ELSE {}

\* The outcomes that are fixed in the current state.
DeterminedNow ==
    IF cb_count > 0 THEN {cb_ec}
    ELSE {fin_ec[l] : l \in {x \in Lines : pc[x] = "on_finish"}}
         \cup UNION {FixedOutcome(k) : k \in Ops}

\* What a cancel() finds when it sets the flag.
CancelEntry ==
    [was_set  |-> m_was_cancelled,
     finished |-> cb_count > 0,
     rpc      |-> pc[Reactor],
     handler  |-> handler,
     n_issued |-> Len(issued)]

\* ------------------------------------------------------------------------
\* Caller threads: execute() and cancel()
\* ------------------------------------------------------------------------

\* execute(), up to the construction of the lock: the preconditions hold and
\* the resolver query is prepared.  Requests are started while the client is
\* open: close() is the last call made on the client.
execute(t) ==
    /\ Alive
    /\ pc[t] = "idle"
    /\ ~executed
    /\ m_work
    /\ executed' = TRUE
    /\ exec_entry_cancelled' = m_was_cancelled
    /\ pc' = [pc EXCEPT ![t] = "execute_lock"]
    /\ UNCHANGED <<fin_ec, handler, request, response, ops, cancels,
                   cancel_callers, cancel_log, issued, observed, determined,
                   callback, touched, m_work>>

\* std::unique_lock<std::mutex> cancel_lock(m_cancel_mux) in execute()
execute_lock(t) ==
    /\ Alive
    /\ pc[t] = "execute_lock"
    /\ m_cancel_mux = "free"
    /\ m_cancel_mux' = t
    /\ pc' = [pc EXCEPT ![t] = "execute_check"]
    /\ UNCHANGED <<fin_ec, handler, m_was_cancelled, sock_open, m_request_buf,
                   response, ops, calls, issued, observed, determined, callback,
                   touched, m_work>>

\* execute_check without the test of the flag
execute_check_unchecked(t) ==
    /\ Alive
    /\ pc[t] = "execute_check"
    /\ pc' = [pc EXCEPT ![t] = "execute_issue"]
    /\ UNCHANGED <<fin_ec, handler, request, response, ops, calls, issued,
                   observed, determined, callback, touched, m_work>>

\* execute(), under the lock: if (m_was_cancelled) unlock and call on_finish
\* with operation_aborted; otherwise go on, the lock still held.
execute_check(t) ==
    /\ Alive
    /\ pc[t] = "execute_check"
    /\ touched' = Touch(t, {"m_was_cancelled"})
    /\ IF m_was_cancelled
       THEN /\ m_cancel_mux' = "free"
            /\ CallOnFinish(t, OperationAborted)
       ELSE /\ pc' = [pc EXCEPT ![t] = "execute_issue"]
            /\ UNCHANGED <<fin_ec, m_cancel_mux>>
    /\ UNCHANGED <<handler, m_was_cancelled, sock_open, m_request_buf, response,
                   ops, calls, issued, observed, determined, callback, m_work>>

\* execute(), under the lock: m_resolver.async_resolve; the lock is released
\* on return.
execute_issue(t) ==
    /\ Alive
    /\ pc[t] = "execute_issue"
    /\ Issue("resolve")
    /\ touched' = Touch(t, IssueTouches("resolve"))
    /\ m_cancel_mux' = "free"
    /\ pc' = [pc EXCEPT ![t] = "idle"]
    /\ UNCHANGED <<fin_ec, handler, m_was_cancelled, m_request_buf, response,
                   calls, observed, determined, callback, m_work>>

\* cancel(): the call, and the construction of the lock
cancel(t) ==
    /\ Alive
    /\ pc[t] = "idle"
    /\ cancels < MaxCancels
    /\ m_cancel_mux = "free"
    /\ m_cancel_mux' = t
    /\ cancels' = cancels + 1
    /\ cancel_callers' = cancel_callers \cup {t}
    /\ pc' = [pc EXCEPT ![t] = "cancel_body"]
    /\ UNCHANGED <<fin_ec, handler, m_was_cancelled, sock_open, m_request_buf,
                   response, ops, executed, exec_entry_cancelled, cancel_log,
                   issued, observed, determined, callback, touched, m_work>>

\* cancel_body that also reports the cancellation itself
cancel_body_notifies(t) ==
    /\ Alive
    /\ pc[t] = "cancel_body"
    /\ m_was_cancelled' = TRUE
    /\ ops' = [k \in Ops |->
                 IF ops[k].st = "pending" /\ (k = "resolve" \/ sock_open)
                 THEN [st |-> "ready", ec |-> OperationAborted]
                 ELSE ops[k]]
    /\ determined' = IF m_was_cancelled THEN determined ELSE DeterminedNow
    /\ cancel_log' = Append(cancel_log, CancelEntry)
    /\ touched' = Touch(t, CancelTouches)
    /\ m_cancel_mux' = "free"
    /\ CallOnFinish(t, OperationAborted)
    /\ UNCHANGED <<handler, sock_open, m_request_buf, response, executed,
                   exec_entry_cancelled, cancels, cancel_callers, issued,
                   observed, callback, m_work>>

\* cancel_body that flips the flag instead of setting it
cancel_body_toggles(t) ==
    /\ Alive
    /\ pc[t] = "cancel_body"
    /\ m_was_cancelled' = ~m_was_cancelled
    /\ ops' = [k \in Ops |->
                 IF ops[k].st = "pending" /\ (k = "resolve" \/ sock_open)
                 THEN [st |-> "ready", ec |-> OperationAborted]
                 ELSE ops[k]]
    /\ determined' = IF m_was_cancelled THEN determined ELSE DeterminedNow
    /\ cancel_log' = Append(cancel_log, CancelEntry)
    /\ touched' = Touch(t, CancelTouches)
    /\ m_cancel_mux' = "free"
    /\ pc' = [pc EXCEPT ![t] = "idle"]
    /\ UNCHANGED <<fin_ec, handler, sock_open, m_request_buf, response, executed,
                   exec_entry_cancelled, cancels, cancel_callers, issued,
                   observed, callback, m_work>>

\* cancel(), under the lock: set the flag, m_resolver.cancel(), and
\* m_sock.cancel() when the socket is open; the lock is released on return.
\* A cancelled operation completes with operation_aborted.
cancel_body(t) ==
    /\ Alive
    /\ pc[t] = "cancel_body"
    /\ m_was_cancelled' = TRUE
    /\ ops' = [k \in Ops |->
                 IF ops[k].st = "pending" /\ (k = "resolve" \/ sock_open)
                 THEN [st |-> "ready", ec |-> OperationAborted]
                 ELSE ops[k]]
    /\ determined' = IF m_was_cancelled THEN determined ELSE DeterminedNow
    /\ cancel_log' = Append(cancel_log, CancelEntry)
    /\ touched' = Touch(t, CancelTouches)
    /\ m_cancel_mux' = "free"
    /\ pc' = [pc EXCEPT ![t] = "idle"]
    /\ UNCHANGED <<fin_ec, handler, sock_open, m_request_buf, response, executed,
                   exec_entry_cancelled, cancels, cancel_callers, issued,
                   observed, callback, m_work>>

\* on_finish that empties the response buffer once the callback has returned
on_finish_clears_buffer(l) ==
    /\ Alive
    /\ pc[l] = "on_finish"
    /\ cb_count' = cb_count + 1
    /\ cb_ec' = fin_ec[l]
    /\ cb_by' = l
    /\ cb_mux' = m_cancel_mux
    /\ m_response_buf' = <<>>
    /\ pc' = [pc EXCEPT ![l] = IF l = Reactor THEN "run" ELSE "idle"]
    /\ UNCHANGED <<fin_ec, handler, request, m_status_code, m_status_message,
                   m_headers, response_writes, ops, calls, issued, observed,
                   determined, touched, m_work>>

\* on_finish(ec) on line l: invoke m_callback(*this, m_response, ec)
on_finish(l) ==
    /\ Alive
    /\ pc[l] = "on_finish"
    /\ cb_count' = cb_count + 1
    /\ cb_ec' = fin_ec[l]
    /\ cb_by' = l
    /\ cb_mux' = m_cancel_mux
    /\ pc' = [pc EXCEPT ![l] = IF l = Reactor THEN "run" ELSE "idle"]
    /\ UNCHANGED <<fin_ec, handler, request, response, ops, calls, issued,
                   observed, determined, touched, m_work>>

\* ------------------------------------------------------------------------
\* HTTPClient: close() and the end of the worker thread
\* ------------------------------------------------------------------------

\* close(): m_work.reset(nullptr).  It is called once, by a thread that is
\* not inside a call, when no thread is inside execute().
close(t) ==
    /\ Alive
    /\ pc[t] = "idle"
    /\ m_work
    /\ \A u \in Callers : pc[u] \notin {"execute_lock", "execute_check", "execute_issue"}
    /\ m_work' = FALSE
    /\ pc' = [pc EXCEPT ![t] = "join"]
    /\ UNCHANGED <<fin_ec, handler, request, response, ops, calls, issued,
                   observed, determined, callback, touched>>

\* close(): m_thread->join() returns once the worker thread has ended
join(t) ==
    /\ Alive
    /\ pc[t] = "join"
    /\ pc[Reactor] = "exited"
    /\ pc' = [pc EXCEPT ![t] = "idle"]
    /\ UNCHANGED <<fin_ec, handler, request, response, ops, calls, issued,
                   observed, determined, callback, touched, m_work>>

\* run_returns that leaves as soon as the work object is gone
run_returns_on_reset ==
    /\ Alive
    /\ pc[Reactor] = "run"
    /\ ~m_work
    /\ pc' = [pc EXCEPT ![Reactor] = "exited"]
    /\ UNCHANGED <<fin_ec, handler, request, response, ops, calls, issued,
                   observed, determined, callback, touched, m_work>>

\* m_ios.run() returns, and the worker thread ends, when the io_service has
\* no work left: no work object and no operation whose handler is to run.
run_returns ==
    /\ Alive
    /\ pc[Reactor] = "run"
    /\ ~m_work
    /\ Outstanding = {}
    /\ pc' = [pc EXCEPT ![Reactor] = "exited"]
    /\ UNCHANGED <<fin_ec, handler, request, response, ops, calls, issued,
                   observed, determined, callback, touched, m_work>>

\* ------------------------------------------------------------------------
\* The network: completion of an outstanding operation
\* ------------------------------------------------------------------------

\* Operation k completes with one of its outcomes; a read that completes
\* has put the received bytes into the response buffer.
Complete(k) ==
    /\ Alive
    /\ ops[k].st = "pending"
    /\ \E ec \in Outcomes(k) :
         /\ ops' = [ops EXCEPT ![k] = [st |-> "ready", ec |-> ec]]
         /\ CASE k = "status" /\ ec = Success ->
                   \E line \in StatusLines, more \in {<<>>} \cup HeaderBlocks :
                       m_response_buf' = m_response_buf \o line \o more
              [] k = "headers" /\ ec = Success ->
                   IF HasDelimiter(m_response_buf, HeaderDelimiter)
                   THEN m_response_buf' = m_response_buf
                   ELSE \E block \in HeaderBlocks :
                            m_response_buf' = m_response_buf \o block
              [] k = "body" /\ ec = Eof ->
                   \E body \in Bodies : m_response_buf' = m_response_buf \o body
              [] OTHER -> m_response_buf' = m_response_buf
    /\ UNCHANGED <<control, request, m_status_code, m_status_message, m_headers,
                   response_writes, calls, issued, observed, determined,
                   callback, touched, m_work>>

\* ------------------------------------------------------------------------
\* Worker thread: the completion handlers
\* ------------------------------------------------------------------------

\* on_host_name_resolved, up to the construction of the lock
on_host_name_resolved ==
    /\ Delivered("resolve")
    /\ Observe("resolve")
    /\ IF ops["resolve"].ec # Success
       THEN /\ CallOnFinish(Reactor, ErrorOnEntry(ops["resolve"].ec))
            /\ UNCHANGED <<handler, touched>>
       ELSE /\ GoOn("resolve")
            /\ touched' = Touch(Reactor, HandlerTouches("resolve"))
    /\ UNCHANGED <<request, response, calls, issued, determined, callback, m_work>>

\* on_connection_established, up to the construction of the lock: composes
\* the request message
on_connection_established ==
    /\ Delivered("connect")
    /\ Observe("connect")
    /\ IF ops["connect"].ec # Success
       THEN /\ CallOnFinish(Reactor, ErrorOnEntry(ops["connect"].ec))
            /\ UNCHANGED <<handler, m_request_buf, touched>>
       ELSE /\ m_request_buf' = TRUE
            /\ GoOn("connect")
            /\ touched' = Touch(Reactor, HandlerTouches("connect"))
    /\ UNCHANGED <<m_was_cancelled, m_cancel_mux, sock_open, response, calls,
                   issued, determined, callback, m_work>>

\* on_request_sent, up to the construction of the lock: shuts down the send
\* side of the socket; the exception of a failed shutdown leaves the
\* handler and m_ios.run(), and ends the worker thread and the process.
on_request_sent ==
    /\ Delivered("write")
    /\ Observe("write")
    /\ IF ops["write"].ec # Success
       THEN /\ CallOnFinish(Reactor, ErrorOnEntry(ops["write"].ec))
            /\ UNCHANGED <<handler, touched>>
       ELSE /\ touched' = Touch(Reactor, HandlerTouches("write"))
            /\ \E sd \in ShutdownOutcomes :
                IF sd = "ok"
                THEN GoOn("write")
                ELSE /\ pc' = [pc EXCEPT ![Reactor] = "terminated"]
                     /\ UNCHANGED <<fin_ec, handler>>
    /\ UNCHANGED <<request, response, calls, issued, determined, callback, m_work>>

\* on_status_line_received that resets the response when the read failed
on_status_line_received_resets_on_error ==
    /\ Delivered("status")
    /\ Observe("status")
    /\ IF ops["status"].ec # Success
       THEN /\ CallOnFinish(Reactor, ErrorOnEntry(ops["status"].ec))
            /\ m_status_code' = 0
            /\ m_status_message' = <<>>
            /\ response_writes' = response_writes \o <<"m_status_code", "m_status_message">>
            /\ UNCHANGED <<handler, m_response_buf, m_headers, touched>>
       ELSE \E p \in {ParseStatusLine(m_response_buf)} :
                /\ m_response_buf' = p.buf
                /\ touched' = Touch(Reactor, HandlerTouches("status"))
                /\ IF p.error # Success
                   THEN /\ CallOnFinish(Reactor, p.error)
                        /\ UNCHANGED <<handler, m_status_code, m_status_message,
                                       response_writes>>
                   ELSE /\ m_status_code' = p.code
                        /\ m_status_message' = p.message
                        /\ response_writes' =
                               response_writes \o <<"m_status_code", "m_status_message">>
                        /\ GoOn("status")
                /\ UNCHANGED m_headers
    /\ UNCHANGED <<request, calls, issued, determined, callback, m_work>>

\* on_status_line_received, up to the construction of the lock: parses the
\* status line out of the response buffer and stores code and message
on_status_line_received ==
    /\ Delivered("status")
    /\ Observe("status")
    /\ IF ops["status"].ec # Success
       THEN /\ CallOnFinish(Reactor, ErrorOnEntry(ops["status"].ec))
            /\ UNCHANGED <<handler, response, touched>>
       ELSE \E p \in {ParseStatusLine(m_response_buf)} :
                /\ m_response_buf' = p.buf
                /\ touched' = Touch(Reactor, HandlerTouches("status"))
                /\ IF p.error # Success
                   THEN /\ CallOnFinish(Reactor, p.error)
                        /\ UNCHANGED <<handler, m_status_code, m_status_message,
                                       response_writes>>
                   ELSE /\ m_status_code' = p.code
                        /\ m_status_message' = p.message
                        /\ response_writes' =
                               response_writes \o <<"m_status_code", "m_status_message">>
                        /\ GoOn("status")
                /\ UNCHANGED m_headers
    /\ UNCHANGED <<request, calls, issued, determined, callback, m_work>>

\* on_headers_received, up to the construction of the lock: parses the
\* header lines; a loop that never ends keeps the worker thread in it
on_headers_received ==
    /\ Delivered("headers")
    /\ Observe("headers")
    /\ IF ops["headers"].ec # Success
       THEN /\ CallOnFinish(Reactor, ErrorOnEntry(ops["headers"].ec))
            /\ UNCHANGED <<handler, response, touched>>
       ELSE \E p \in {ParseHeaders(m_response_buf, m_headers)} :
                /\ m_response_buf' = p.buf
                /\ m_headers' = p.headers
                /\ response_writes' = IF p.headers # m_headers
                                      THEN Append(response_writes, "m_headers")
                                      ELSE response_writes
                /\ touched' = Touch(Reactor, HandlerTouches("headers"))
                /\ IF p.hangs
                   THEN /\ pc' = [pc EXCEPT ![Reactor] = "hung"]
                        /\ UNCHANGED <<fin_ec, handler>>
                   ELSE GoOn("headers")
                /\ UNCHANGED <<m_status_code, m_status_message>>
    /\ UNCHANGED <<request, calls, issued, determined, callback, m_work>>

\* on_response_body_received: end of stream is the successful end
on_response_body_received ==
    /\ Delivered("body")
    /\ Observe("body")
    /\ CallOnFinish(Reactor, BodyResult(ops["body"].ec))
    /\ UNCHANGED <<handler, request, response, calls, issued, determined,
                   callback, touched, m_work>>

\* handler_lock that goes straight on to the next operation
handler_lock_skips_check ==
    /\ Alive
    /\ pc[Reactor] = "lock"
    /\ m_cancel_mux = "free"
    /\ m_cancel_mux' = Reactor
    /\ pc' = [pc EXCEPT ![Reactor] = "issue"]
    /\ UNCHANGED <<fin_ec, handler, m_was_cancelled, sock_open, m_request_buf,
                   response, ops, calls, issued, observed, determined, callback,
                   touched, m_work>>

\* std::unique_lock<std::mutex> cancel_lock(m_cancel_mux) in a handler
handler_lock ==
    /\ Alive
    /\ pc[Reactor] = "lock"
    /\ m_cancel_mux = "free"
    /\ m_cancel_mux' = Reactor
    /\ pc' = [pc EXCEPT ![Reactor] = "check"]
    /\ UNCHANGED <<fin_ec, handler, m_was_cancelled, sock_open, m_request_buf,
                   response, ops, calls, issued, observed, determined, callback,
                   touched, m_work>>

\* handler_check without the test of the flag
handler_check_unchecked ==
    /\ Alive
    /\ pc[Reactor] = "check"
    /\ pc' = [pc EXCEPT ![Reactor] = "issue"]
    /\ UNCHANGED <<fin_ec, handler, request, response, ops, calls, issued,
                   observed, determined, callback, touched, m_work>>

\* handler_check that releases the lock as soon as it has read the flag
handler_check_unlocks_early ==
    /\ Alive
    /\ pc[Reactor] = "check"
    /\ touched' = Touch(Reactor, {"m_was_cancelled"})
    /\ m_cancel_mux' = "free"
    /\ IF m_was_cancelled
       THEN CallOnFinish(Reactor, OperationAborted)
       ELSE /\ pc' = [pc EXCEPT ![Reactor] = "issue"]
            /\ UNCHANGED fin_ec
    /\ UNCHANGED <<handler, m_was_cancelled, sock_open, m_request_buf, response,
                   ops, calls, issued, observed, determined, callback, m_work>>

\* handler_check that calls on_finish without cancel_lock.unlock()
handler_check_keeps_lock ==
    /\ Alive
    /\ pc[Reactor] = "check"
    /\ touched' = Touch(Reactor, {"m_was_cancelled"})
    /\ IF m_was_cancelled
       THEN CallOnFinish(Reactor, OperationAborted)
       ELSE /\ pc' = [pc EXCEPT ![Reactor] = "issue"]
            /\ UNCHANGED fin_ec
    /\ UNCHANGED <<handler, request, response, ops, calls, issued, observed,
                   determined, callback, m_work>>

\* A handler under the lock: if (m_was_cancelled) unlock and call on_finish
\* with operation_aborted; otherwise go on, the lock still held.
handler_check ==
    /\ Alive
    /\ pc[Reactor] = "check"
    /\ touched' = Touch(Reactor, {"m_was_cancelled"})
    /\ IF m_was_cancelled
       THEN /\ m_cancel_mux' = "free"
            /\ CallOnFinish(Reactor, OperationAborted)
       ELSE /\ pc' = [pc EXCEPT ![Reactor] = "issue"]
            /\ UNCHANGED <<fin_ec, m_cancel_mux>>
    /\ UNCHANGED <<handler, m_was_cancelled, sock_open, m_request_buf, response,
                   ops, calls, issued, observed, determined, callback, m_work>>

\* A handler under the lock: the initiating call of the next operation; the
\* lock is released on return.
handler_issue ==
    /\ Alive
    /\ pc[Reactor] = "issue"
    /\ Issue(NextOp(handler))
    /\ touched' = Touch(Reactor, IssueTouches(NextOp(handler)))
    /\ m_cancel_mux' = "free"
    /\ pc' = [pc EXCEPT ![Reactor] = "run"]
    /\ UNCHANGED <<fin_ec, handler, m_was_cancelled, m_request_buf, response,
                   calls, observed, determined, callback, m_work>>

\* ------------------------------------------------------------------------
\* Specification
\* ------------------------------------------------------------------------

Next ==
    \/ \E t \in Callers : execute(t)
    \/ \E t \in Callers : execute_lock(t)
    \/ \E t \in Callers : execute_check(t)
    \/ \E t \in Callers : execute_issue(t)
    \/ \E t \in Callers : cancel(t)
    \/ \E t \in Callers : cancel_body(t)
    \/ \E t \in Callers : close(t)
    \/ \E t \in Callers : join(t)
    \/ \E l \in Lines : on_finish(l)
    \/ \E k \in Ops : Complete(k)
    \/ on_host_name_resolved
    \/ on_connection_established
    \/ on_request_sent
    \/ on_status_line_received
    \/ on_headers_received
    \/ on_response_body_received
    \/ handler_lock
    \/ handler_check
    \/ handler_issue
    \/ run_returns

Spec == Init /\ [][Next]_vars

\* A step of the worker thread inside m_ios.run()
ReactorStep ==
    \/ on_host_name_resolved
    \/ on_connection_established
    \/ on_request_sent
    \/ on_status_line_received
    \/ on_headers_received
    \/ on_response_body_received
    \/ handler_lock
    \/ handler_check
    \/ handler_issue
    \/ on_finish(Reactor)
    \/ run_returns

\* A step of caller t inside a call of execute(), cancel() or close() it
\* has made
CallerStep(t) ==
    \/ execute_lock(t)
    \/ execute_check(t)
    \/ execute_issue(t)
    \/ cancel_body(t)
    \/ on_finish(t)
    \/ join(t)

\* The worker thread keeps running the handlers that are ready, a thread
\* inside a call goes on to its end, and the network completes every
\* outstanding operation.  Nothing obliges a caller to call.
Fairness ==
    /\ WF_vars(ReactorStep)
    /\ \A t \in Callers : WF_vars(CallerStep(t))
    /\ WF_vars(\E k \in Ops : Complete(k))

FairSpec == Spec /\ Fairness

TypeOK ==
    /\ pc \in [Lines -> {"idle", "run", "execute_lock", "execute_check",
                         "execute_issue", "cancel_body", "join", "lock",
                         "check", "issue", "on_finish", "terminated", "hung",
                         "exited"}]
    /\ m_was_cancelled \in BOOLEAN
    /\ m_cancel_mux \in Lines \cup {"free"}
    /\ \A k \in Ops : ops[k].st \in {"none", "pending", "ready"}
    /\ cancels \in 0..MaxCancels
    /\ Len(cancel_log) <= cancels
    /\ \A m \in Members : touched[m] \subseteq Lines
    /\ m_work \in BOOLEAN
    /\ cb_count \in Nat

\* ------------------------------------------------------------------------
\* Properties
\* ------------------------------------------------------------------------

Aborted(k) == ops[k] = [st |-> "ready", ec |-> OperationAborted]
LastObserved == observed[Len(observed)]

\* execute() has been called, every operation that was issued has completed
\* and its completion has been taken by its handler, and no line of control
\* is inside execute(), cancel(), a handler's cancellation check or on_finish.
Quiescent ==
    /\ executed
    /\ Outstanding = {}
    /\ \A t \in Callers : pc[t] = "idle"
    /\ pc[Reactor] \notin {"lock", "check", "issue", "on_finish"}

\* C1: the callback is invoked exactly once per Request: never twice, and
\* once in every run in which every issued operation has completed.
C1_CallbackExactlyOnce ==
    /\ cb_count <= 1
    /\ Quiescent => cb_count = 1

\* the part of C1 that the code keeps: the callback is never invoked twice
CallbackAtMostOnce == cb_count <= 1

\* C2: after a cancel() that follows execute(), the callback eventually
\* fires, exactly once, with operation_aborted or with an outcome that was
\* already fixed when the flag was set.
C2_CancelAfterExecute ==
    /\ [](executed /\ ~exec_entry_cancelled /\ m_was_cancelled => <>(cb_count = 1))
    /\ [](cb_count <= 1)
    /\ [](m_was_cancelled /\ cb_count = 1
            => cb_ec = OperationAborted \/ cb_ec \in determined)

\* the part of C2 that the code keeps: what the callback receives after a
\* cancel() is operation_aborted or an outcome fixed before the flag was set
CancelledOutcome ==
    m_was_cancelled /\ cb_count = 1 => cb_ec = OperationAborted \/ cb_ec \in determined

\* C3: when cancel() has returned before execute() is called, execute()
\* invokes the callback with operation_aborted and no operation is ever
\* issued.
C3_CancelBeforeExecute ==
    exec_entry_cancelled =>
        /\ issued = <<>>
        /\ Outstanding = {}
        /\ cb_count > 0 => cb_ec = OperationAborted
        /\ (\A t \in Callers : pc[t] \notin {"execute_lock", "execute_check", "on_finish"})
              => cb_count = 1

C3_Witness ==
    /\ exec_entry_cancelled
    /\ cb_count = 1
    /\ cb_ec = OperationAborted
    /\ \A t \in Callers : pc[t] = "idle"

\* C4: the callback is always invoked by the worker thread, never by a
\* thread that called cancel().
C4_CallbackOnReactor ==
    cb_count > 0 => cb_by = Reactor /\ cb_by \notin cancel_callers

\* C5: once the flag is set no operation is issued, and a cancellation
\* check that finds the flag set calls on_finish with operation_aborted
\* without issuing anything.
C5_NoIssueAfterCancel ==
    [][ /\ m_was_cancelled =>
            /\ issued' = issued
            /\ \A k \in Ops : ops'[k].st = "pending" => ops[k].st = "pending"
        /\ \A l \in Lines :
            (/\ pc[l] \in {"check", "execute_check"}
             /\ pc'[l] # pc[l]
             /\ m_was_cancelled)
            => /\ pc'[l] = "on_finish"
               /\ fin_ec'[l] = OperationAborted
               /\ issued' = issued ]_vars

\* a handler took a successful completion, found the flag set, and the
\* callback received operation_aborted
C5_Witness ==
    /\ cb_count = 1
    /\ cb_by = Reactor
    /\ cb_ec = OperationAborted
    /\ observed # <<>>
    /\ LastObserved.ec = Success
    /\ Len(issued) = Len(observed)

\* C6: cancel() never invokes the callback; it sets the flag and aborts the
\* outstanding operation, whose handler, run later by the worker thread
\* with operation_aborted, is what invokes the callback.
C6_CancelNeverInvokesCallback ==
    /\ [][ \A t \in Callers :
             (pc[t] = "cancel_body" /\ pc'[t] # pc[t])
             => /\ pc'[t] = "idle"
                /\ cb_count' = cb_count
                /\ m_was_cancelled'
                /\ \A k \in Ops :
                     (ops[k].st = "pending" /\ (k = "resolve" \/ sock_open))
                     => Aborted(k)' ]_vars
    /\ [][ \A k \in Ops :
             (Aborted(k) /\ ops'[k].st = "none")
             => /\ pc'[Reactor] = "on_finish"
                /\ fin_ec'[Reactor] = OperationAborted
                /\ cb_count' = 0 ]_vars
    /\ (\E k \in Ops : Aborted(k))
         ~> (cb_count = 1 /\ cb_by = Reactor /\ cb_ec = OperationAborted)

\* the handler of an aborted operation has invoked the callback
C6_Witness ==
    /\ cb_count = 1
    /\ cb_by = Reactor
    /\ cb_ec = OperationAborted
    /\ observed # <<>>
    /\ LastObserved.ec = OperationAborted
    /\ m_was_cancelled

\* an error other than the end of stream on the body read
IsFailure(k, ec) == ec # Success /\ ~(k = "body" /\ ec = Eof)

\* C7: a handler whose completion reports an error calls on_finish with
\* exactly that error; nothing is issued afterwards and nothing is retried.
C7_ErrorPassedThrough ==
    /\ [][ \A k \in Ops :
             (ops[k].st = "ready" /\ ops'[k].st = "none" /\ IsFailure(k, ops[k].ec))
             => /\ pc'[Reactor] = "on_finish"
                /\ fin_ec'[Reactor] = ops[k].ec
                /\ issued' = issued ]_vars
    /\ []( (observed # <<>> /\ IsFailure(LastObserved.op, LastObserved.ec))
            => /\ Outstanding = {}
               /\ Len(issued) = Len(observed)
               /\ issued[Len(issued)] = LastObserved.op
               /\ Cardinality({i \in 1..Len(issued) : issued[i] = LastObserved.op}) = 1
               /\ cb_count = 1 => cb_ec = LastObserved.ec )

C7_Witness ==
    /\ cb_count = 1
    /\ observed # <<>>
    /\ LastObserved = [op |-> "write", ec |-> "connection_reset"]
    /\ cb_ec = "connection_reset"

\* C8: the end of stream on the body read is a success, any other error of
\* the body read is a failure, and the end of stream on the status-line or
\* header read is an error.
C8_EofOnBodyIsSuccess ==
    (cb_count = 1 /\ observed # <<>>) =>
        /\ LastObserved.op = "body" /\ LastObserved.ec = Eof => cb_ec = Success
        /\ LastObserved.op = "body" /\ LastObserved.ec # Eof => cb_ec = LastObserved.ec
        /\ LastObserved.op \in {"status", "headers"} /\ LastObserved.ec = Eof
              => cb_ec = Eof

C8_Witness ==
    /\ cb_count = 1
    /\ observed # <<>>
    /\ LastObserved = [op |-> "body", ec |-> Eof]
    /\ cb_ec = Success

\* the end of stream on the header read has been delivered as an error
C8_WitnessHeaderEof ==
    /\ cb_count = 1
    /\ observed # <<>>
    /\ LastObserved = [op |-> "headers", ec |-> Eof]
    /\ cb_ec = Eof

\* C9: the operations are issued in the order resolve, connect, write,
\* status line, headers, body, each one only after the completion of the
\* previous one was taken by its handler, so at most one is outstanding;
\* the callback fires only after the completion of the last one issued.
C9_StrictOrder ==
    /\ []( /\ Len(issued) <= Len(OpOrder)
           /\ \A i \in 1..Len(issued) : issued[i] = OpOrder[i]
           /\ Cardinality(Outstanding) <= 1
           /\ Len(observed) <= Len(issued)
           /\ Len(issued) - Len(observed) = Cardinality(Outstanding)
           /\ \A i \in 1..Len(observed) : observed[i].op = issued[i]
           /\ cb_count > 0 => Outstanding = {} /\ Len(observed) = Len(issued) )
    /\ [][ issued' # issued
             => /\ Outstanding = {}
                /\ Len(observed) = Len(issued)
                /\ cb_count = 0 ]_vars

C9_Witness ==
    /\ issued = OpOrder
    /\ Len(observed) = Len(OpOrder)
    /\ cb_count = 1

\* a token made of decimal digits only
IsNumeric(tok) == tok # <<>> /\ \A i \in 1..Len(tok) : tok[i] \in Digits

\* C10: when the status-line read completes without error and the version
\* token is not HTTP/1.1 or the status-code token is not numeric, the
\* handler calls on_finish with invalid_response and issues no read.
C10_InvalidStatusLine ==
    [][ (/\ ops["status"] = [st |-> "ready", ec |-> Success]
         /\ ops'["status"].st = "none"
         /\ LET v == Extract(NewStream(m_response_buf))
                c == Extract(v.s)
            IN  v.tok # HTTP11 \/ ~IsNumeric(c.tok))
        => /\ pc'[Reactor] = "on_finish"
           /\ fin_ec'[Reactor] = invalid_response
           /\ issued' = issued ]_vars

\* the status-line read has completed without error
StatusLineRead == \E i \in 1..Len(observed) : observed[i] = [op |-> "status", ec |-> Success]

\* C11: as long as no status-line read has completed without error, the
\* status code, the status message and the headers of the response have
\* never been written, whatever way the request finishes; and when the
\* resolution has failed, the callback is invoked once, with that error.
C11_ResponseUnpopulated ==
    /\ ~StatusLineRead =>
          /\ response_writes = <<>>
          /\ m_status_message = <<>>
          /\ m_headers = EmptyHeaders
    /\ (observed # <<>> /\ LastObserved = [op |-> "resolve", ec |-> "host_not_found"]) =>
          /\ cb_count = (IF pc[Reactor] = "on_finish" THEN 0 ELSE 1)
          /\ cb_count = 1 => cb_ec = "host_not_found"
          /\ Outstanding = {}

\* the resolution failed and the callback has received the error
C11_Witness ==
    /\ observed = <<[op |-> "resolve", ec |-> "host_not_found"]>>
    /\ cb_count = 1
    /\ cb_ec = "host_not_found"
    /\ response_writes = <<>>

\* the request was cancelled during the status-line read and has finished
C11_WitnessCancelled ==
    /\ observed # <<>>
    /\ LastObserved = [op |-> "status", ec |-> OperationAborted]
    /\ cb_count = 1
    /\ response_writes = <<>>

\* C12: a cancel() that finds the flag already set changes nothing but its
\* own position, so that any number of calls leaves what one call leaves;
\* a cancel() made after the callback was invoked invokes no callback,
\* issues no operation and leaves the response as it is; and the callback
\* is invoked at most once however many times cancel() is called.
C12_CancelIdempotent ==
    /\ [][ \A t \in Callers :
             (pc[t] = "cancel_body" /\ pc'[t] # pc[t]) =>
                 /\ pc'[t] = "idle"
                 /\ m_was_cancelled'
                 /\ m_was_cancelled =>
                       /\ UNCHANGED <<ops, sock_open, m_request_buf, response,
                                      issued, observed, determined, callback,
                                      fin_ec, handler>>
                       /\ \A l \in Lines \ {t} : pc'[l] = pc[l]
                 /\ cb_count > 0 =>
                       /\ UNCHANGED <<ops, response, issued, observed, callback>>
                       /\ Outstanding' = {}
                       /\ \A l \in Lines \ {t} : pc'[l] = pc[l] ]_vars
    /\ [](cb_count <= 1)
    /\ [](m_was_cancelled /\ cb_count = 1
            => cb_ec = OperationAborted \/ cb_ec \in determined)

\* cancel() was called twice, the second time after the callback had been
\* invoked, and both calls have returned
C12_Witness ==
    /\ Len(cancel_log) >= 2
    /\ cancel_log[Len(cancel_log)].was_set
    /\ cancel_log[Len(cancel_log)].finished
    /\ \A t \in Callers : pc[t] = "idle"
    /\ cb_count = 1

\* C13: no member other than the cancellation flag is accessed both by a
\* thread that calls cancel() and by the worker thread.
C13_OnlyFlagShared ==
    \A m \in Members \ {"m_was_cancelled"} :
        ~(Reactor \in touched[m] /\ touched[m] \cap cancel_callers # {})

\* the part of C13 that the code keeps: the response and the request
\* message are accessed by the worker thread only
BuffersOnReactorOnly ==
    /\ touched["m_response"] \subseteq {Reactor}
    /\ touched["m_request_buf"] \subseteq {Reactor}

\* C14: close() returns only once the worker thread has ended, the worker
\* thread ends only when the work object is gone and no operation of the
\* request is outstanding, so a close() made while the request is in flight
\* stays blocked until its last completion was delivered; and close() never
\* sets the cancellation flag and never aborts or completes an operation.
C14_CloseWaitsForWorker ==
    /\ [][ \A t \in Callers :
             (pc[t] = "join" /\ pc'[t] # "join") => pc[Reactor] = "exited" ]_vars
    /\ [][ (pc[Reactor] # "exited" /\ pc'[Reactor] = "exited")
             => /\ ~m_work
                /\ Outstanding = {}
                /\ pc[Reactor] = "run" ]_vars
    /\ [][ \A t \in Callers :
             (\/ pc[t] = "idle" /\ pc'[t] = "join"
              \/ pc[t] = "join" /\ pc'[t] = "idle")
             => UNCHANGED <<m_was_cancelled, ops, issued, observed, callback>> ]_vars
    /\ []( ((\E t \in Callers : pc[t] = "join") /\ Outstanding # {})
             => pc[Reactor] # "exited" )

\* close() was called while an operation of a request that nobody cancelled
\* is outstanding, and waits in join()
C14_Witness ==
    /\ \E t \in Callers : pc[t] = "join"
    /\ Outstanding # {}
    /\ ~m_was_cancelled
    /\ ~m_work

\* close() has returned after the request ran to its end
C14_WitnessReturned ==
    /\ ~m_work
    /\ \A t \in Callers : pc[t] = "idle"
    /\ pc[Reactor] = "exited"
    /\ issued = OpOrder
    /\ cb_count = 1
    /\ ~m_was_cancelled

RECURSIVE LineEnd(_, _)
\* index of the first "\r\n" in b at or after position i, 0 if there is none
LineEnd(b, i) ==
    IF i + 1 > Len(b) THEN 0
    ELSE IF b[i] = CR /\ b[i + 1] = LF THEN i
    ELSE LineEnd(b, i + 1)

\* the mapping after one header line: the text before the first ':' maps to
\* the text after it, a line without ':' adds nothing
LineStored(map, line) ==
    IF \A i \in 1..Len(line) : line[i] # ":" THEN map
    ELSE LET c == CHOOSE i \in 1..Len(line) :
                      line[i] = ":" /\ \A j \in 1..(i - 1) : line[j] # ":"
             name == SubSeq(line, 1, c - 1)
             value == SubSeq(line, c + 1, Len(line))
         IN  [n \in DOMAIN map \cup {name} |-> IF n = name THEN value ELSE map[n]]

RECURSIVE LinesStored(_, _)
\* the mapping after the "\r\n"-delimited lines of b up to the first empty
\* one, processed in order
LinesStored(b, map) ==
    LET e == LineEnd(b, 1)
    IN  IF e <= 1 THEN map
        ELSE LinesStored(SubSeq(b, e + 2, Len(b)), LineStored(map, SubSeq(b, 1, e - 1)))

\* C15: when the handler of a header read that completed without error has
\* run, the header mapping is the one obtained from the header lines in the
\* buffer, in order, up to the first empty line.
C15_HeaderMapping ==
    [][ (/\ ops["headers"] = [st |-> "ready", ec |-> Success]
         /\ ops'["headers"].st = "none")
        => m_headers' = LinesStored(m_response_buf, EmptyHeaders) ]_vars

\* C16: when the callback has been invoked with no error, the status code
\* of the response is a number of three digits.
C16_StatusCodeThreeDigits ==
    (cb_count > 0 /\ cb_ec = Success) => m_status_code \in 100..999

\* C17: no step that invokes the callback, and no step after it, changes
\* the status code, the status message, the headers or the buffer of the
\* response; the fields are stored only by steps in which the worker thread
\* runs the handler of a completion, before any callback.
C17_ResponseFrozen ==
    /\ [][ cb_count' > 0 => UNCHANGED response ]_vars
    /\ [][ response_writes' # response_writes
             => /\ pc[Reactor] = "run"
                /\ Len(observed') = Len(observed) + 1
                /\ cb_count' = 0 ]_vars
    /\ [][ <<m_status_code, m_status_message, m_headers>>'
               # <<m_status_code, m_status_message, m_headers>>
             => response_writes' # response_writes ]_vars

\* the response was populated, the callback was invoked, and cancel() was
\* called afterwards
C17_Witness ==
    /\ cb_count = 1
    /\ Len(response_writes) = 3
    /\ m_response_buf # <<>>
    /\ cancel_log # <<>>
    /\ cancel_log[Len(cancel_log)].finished

\* the calls of cancel() that ran while a handler, having found no error
\* and done the work of its step, had not yet taken the lock for its
\* cancellation check
CancelledAfterStep == {i \in 1..Len(cancel_log) : cancel_log[i].rpc = "lock"}

\* C18: when cancel() sets the flag after a step (resolve, connect, write,
\* status-line read, header read) has succeeded and before the next
\* operation is issued, the next operation is never issued and the callback
\* is invoked, once, with operation_aborted.
C18_CancelBetweenSteps ==
    /\ [](\A i \in CancelledAfterStep :
            /\ Len(issued) = cancel_log[i].n_issued
            /\ issued[Len(issued)] = cancel_log[i].handler
            /\ LastObserved = [op |-> cancel_log[i].handler, ec |-> Success]
            /\ Outstanding = {}
            /\ cb_count <= 1
            /\ cb_count = 1 => cb_ec = OperationAborted /\ cb_by = Reactor)
    /\ (CancelledAfterStep # {}) ~> (cb_count = 1)

\* the flag was set between the header parsing and the cancellation check
\* of on_headers_received, and the callback received operation_aborted
C18_Witness ==
    /\ \E i \in CancelledAfterStep : cancel_log[i].handler = "headers"
    /\ cb_count = 1
    /\ cb_ec = OperationAborted

\* the same between the resolution and the connect
C18_WitnessResolve ==
    /\ \E i \in CancelledAfterStep : cancel_log[i].handler = "resolve"
    /\ cb_count = 1
    /\ cb_ec = OperationAborted

\* the positions at which a line of control reads or writes the flag, or
\* is between its cancellation check and the initiating call
InCriticalSection(l) ==
    pc[l] \in {"execute_check", "execute_issue", "cancel_body", "check", "issue"}

\* C19: a line of control reads or writes the flag only while it holds the
\* lock; between the check of a step and its initiating call the lock stays
\* with the checking line and the flag stays clear, so no cancel() sets it
\* there; the flag is set only by a cancel() that holds the lock, in the
\* step that also aborts the pending operation, so that with the flag set no
\* operation is left pending.
C19_CheckAndIssueAtomic ==
    /\ [](\A l \in Lines : InCriticalSection(l) => m_cancel_mux = l)
    /\ [](\A l \in Lines : pc[l] \in {"execute_issue", "issue"} => ~m_was_cancelled)
    /\ [][ \A l \in Lines :
             pc[l] \in {"execute_issue", "issue"}
             => /\ m_was_cancelled' = m_was_cancelled
                /\ pc'[l] # pc[l] => issued' # issued /\ m_cancel_mux' = "free"
                /\ \A t \in Callers \ {l} : pc'[t] = "cancel_body" => pc[t] = "cancel_body" ]_vars
    /\ [][ m_was_cancelled' # m_was_cancelled
             => \E t \in Callers :
                   /\ pc[t] = "cancel_body"
                   /\ pc'[t] = "idle"
                   /\ m_cancel_mux = t ]_vars
    /\ [][ issued' # issued => ~m_was_cancelled /\ ~m_was_cancelled' ]_vars
    /\ [](m_was_cancelled => \A k \in Ops : ops[k].st # "pending")

\* a cancel() that took the lock after a handler had checked the flag and
\* issued its operation has set the flag and aborted that operation, whose
\* handler has reported operation_aborted
C19_Witness ==
    /\ cancel_log # <<>>
    /\ ~cancel_log[1].was_set
    /\ cancel_log[1].rpc = "run"
    /\ cancel_log[1].n_issued >= 2
    /\ observed # <<>>
    /\ LastObserved.ec = OperationAborted
    /\ cb_count = 1
    /\ cb_ec = OperationAborted

\* C20: the line of control that calls on_finish, and then invokes the
\* callback, does not hold the lock: a cancel() made by the callback, or by
\* another thread during the callback, can take it.
C20_CallbackWithoutLock ==
    /\ \A l \in Lines : pc[l] = "on_finish" => m_cancel_mux # l
    /\ cb_count > 0 => cb_mux # cb_by
    /\ \A l \in Lines : m_cancel_mux = l => InCriticalSection(l)

\* the callback was invoked from a cancellation check while another thread
\* was inside cancel(), holding the lock
C20_Witness ==
    /\ cb_count = 1
    /\ cb_by = Reactor
    /\ cb_ec = OperationAborted
    /\ cb_mux \in Callers
    /\ observed # <<>>
    /\ LastObserved.ec = Success

\* C21: on_finish is called with no error only by the handler of the body
\* read; when the callback has received no error, the six operations were
\* issued in order, the first five completed without error and their
\* handlers ran before the body read completed, the worker thread invoked
\* the callback, and every cancel() that set the flag did so after the last
\* of the six cancellation checks, when all six operations had been issued.
C21_SuccessOnlyFromBodyRead ==
    /\ [][ \A l \in Lines :
             (pc[l] # "on_finish" /\ pc'[l] = "on_finish" /\ fin_ec'[l] = Success)
             => /\ l = Reactor
                /\ ops["body"].st = "ready"
                /\ ops'["body"].st = "none"
                /\ issued = OpOrder ]_vars
    /\ []( (cb_count > 0 /\ cb_ec = Success) =>
             /\ cb_by = Reactor
             /\ ~exec_entry_cancelled
             /\ issued = OpOrder
             /\ Len(observed) = Len(OpOrder)
             /\ \A i \in 1..Len(OpOrder) : observed[i].op = OpOrder[i]
             /\ \A i \in 1..(Len(OpOrder) - 1) : observed[i].ec = Success
             /\ BodyResult(observed[Len(OpOrder)].ec) = Success
             /\ Len(response_writes) >= 2
             /\ \A i \in 1..Len(cancel_log) :
                    ~cancel_log[i].was_set => cancel_log[i].n_issued = Len(OpOrder) )

\* the callback received no error although cancel() was called: the flag
\* was set only after the body read had been issued and had reached the end
\* of the stream
C21_Witness ==
    /\ cb_count = 1
    /\ cb_ec = Success
    /\ issued = OpOrder
    /\ m_was_cancelled
    /\ cancel_log # <<>>
    /\ ~cancel_log[1].finished

====
